---- MODULE Spec2Model ----
(***************************************************************************)
(* Model of the trigger engine (keyboard_listener.py), the analysis        *)
(* gateway (llm_manager.py) and the fired handlers (main.py,               *)
(* email_sender.py).                                                       *)
(*                                                                         *)
(* Time is counted in ticks of half a second, so that the scenario         *)
(* "window 2 s, events at 0.0, 0.5, 3.0" is window 4, events at 0, 1, 6.   *)
(***************************************************************************)
EXTENDS Integers, Sequences, FiniteSets, TLC

\* ---------------------------------------------------------------- bounds
\* The trigger specification: clock range, clock advance between the two
\* reads of one key event, number of key events.
MaxTime == 6
MaxSkew == 1
MaxEvents == 4
\* The application specification: clock range, number of key events, and
\* the length of the stored list below which clients post.
AppMaxTime == 1
AppMaxEvents == 2
AppMaxResults == 1

\* ------------------------------------------------------------ value sets
\* Python's None, and an exception travelling up the call stack.
None == "None"
Exc == "Exception"

BuiltinProviders == {"ollama", "openai", "claude", "doubao"}
\* "qwen" stands for any provider id that is not a built-in one.
ProviderIds == BuiltinProviders \cup {"qwen"}

\* What the configuration holds for a provider: nothing, the placeholder
\* shipped in the sample configuration, or a usable value.
CredStates == {"missing", "placeholder", "valid"}

\* The prompt templates of the text role: the default one, one without a
\* placeholder, and one that str.format rejects.
PromptTemplates == {"default", "plain", "malformed"}

\* What the backend does with a request that was sent.
Outcomes == {"ok", "transport_error", "bad_status", "missing_field"}

\* Image references: a readable file, an unreadable file, an http:// URL
\* and an https:// URL.
Images == {"file_ok", "file_bad", "http_url", "https_url"}

\* What the configuration holds as the timeout of a provider section:
\* nothing, or a number of seconds.
TimeoutSettings ==
    {[set |-> FALSE, value |-> 0]} \cup {[set |-> TRUE, value |-> v] : v \in {5, 30}}

\* The default of .get('timeout', 60) and the cap of the health probe.
DefaultTimeout == 60
HealthCap == 10

Texts == {"abc", "xyz"}

Kinds == {"capture", "send"}
Keys == {"enter", "shift", "shift_l", "shift_r", "other"}

VARIABLES
    now,            \* the wall clock, time.time()
    trigger_count,  \* KeyboardListener.trigger_count
    trigger_timeout,\* KeyboardListener.trigger_timeout
    enter_times,    \* KeyboardListener.enter_times
    shift_times,    \* KeyboardListener.shift_times
    handlers,       \* the threads started by _check_trigger, in start order
    events,         \* history: per kind, the key events processed so far
    llm_config,     \* config['llm'] as LLMManager reads it
    ollama_up,      \* whether the local inference server answers /api/tags
    llm_status,     \* result of the startup availability check
    email_enabled,  \* config['email']['enabled']
    web_enabled,    \* config['web_service']['enabled']
    keys_seen,      \* history: number of key events delivered so far
    last,           \* the last gateway call and what it returned
    results,        \* the results store's list (results.json)
    response,       \* the last request to the results store and its answer
    boot,           \* the startup of the application and how far it got
    keyboard_listener \* KeyboardListener.running / .listener and the
                    \* pynput listeners it has created

vars == <<now, trigger_count, trigger_timeout, enter_times, shift_times,
          handlers, events, llm_config, ollama_up, llm_status,
          email_enabled, web_enabled, keys_seen, last, results, response, boot,
          keyboard_listener>>

triggerVars == <<now, trigger_count, trigger_timeout, enter_times,
                 shift_times, handlers, events, keys_seen>>
configVars == <<llm_config, ollama_up, llm_status, email_enabled, web_enabled>>
otherVars == <<results, response, boot, keyboard_listener>>

\* ------------------------------------------------------ analysis gateway

\* is_enabled as it would be if it ignored the configured flag.
is_enabled_always(cfg) == TRUE

\* LLMManager.is_enabled
is_enabled(cfg) == cfg.enabled

\* LLMManager._encode_image_to_base64: the base64 text of the file, or None
\* when the file cannot be read (a URL is not a readable file).
EncodeImageToBase64(image) ==
    IF image = "file_ok" THEN "b64" ELSE None

\* A body whose except clause is missing: the exception travels on.
Catch_missing(r) == r

\* An except clause around an adapter or gateway body: the exception is
\* swallowed and the call returns None.
Catch(r) == IF r.ret = Exc THEN [r EXCEPT !.ret = None] ELSE r

\* What an adapter returns for a request that was sent: the text of the
\* response, the adapter's default when the field is missing, or an exception.
\* requests-based adapters read the field with dict.get(..., ''); the SDK
\* adapters index into the response object.
ResponseOf(adapter, outcome) ==
    CASE outcome = "ok" -> "text"
      [] outcome = "missing_field" ->
            IF adapter \in {"ollama", "custom"} THEN "" ELSE None
      [] OTHER -> Exc

\* The image part shared by the ollama, openai, claude and custom adapters:
\* one encoded image when the file could be encoded, otherwise a text-only
\* message.
InlineImages(image) ==
    IF image # None /\ EncodeImageToBase64(image) # None
    THEN <<EncodeImageToBase64(image)>>
    ELSE <<>>

\* str.startswith(('http://', 'https://'))
IsUrl(image) == image \in {"http_url", "https_url"}

\* f'data:image/jpeg;base64,{image_base64}'
DataUri(b64) == <<"data:image/jpeg;base64,", b64>>

\* The image URLs of a doubao request: a URL is passed through, anything
\* else is encoded into a data URI; no image when the encoding fails.
DoubaoImages(image) ==
    IF image = None THEN <<>>
    ELSE IF IsUrl(image) THEN << <<image>> >>
    ELSE IF EncodeImageToBase64(image) # None
    THEN <<DataUri(EncodeImageToBase64(image))>>
    ELSE <<>>

\* A user message with the prompt and its image parts.
UserMessage(prompt, images) ==
    [role |-> "user", text |-> prompt, images |-> images]

\* The messages list of the openai, claude and custom adapters: one user
\* message on every path.
InlineMessages(prompt, image) == <<UserMessage(prompt, InlineImages(image))>>

\* The messages list of the doubao adapter. When the encoding of a local
\* file fails the text-only message is appended in the inner else branch
\* and again in the else branch of 'if image_url'.
DoubaoMessages(prompt, image) ==
    IF image # None /\ ~IsUrl(image) /\ EncodeImageToBase64(image) = None
    THEN <<UserMessage(prompt, <<>>), UserMessage(prompt, <<>>)>>
    ELSE <<UserMessage(prompt, DoubaoImages(image))>>

\* The timeout a provider section configures, 60 when it configures none.
timeout_of(cfg, section) ==
    IF cfg.timeout[section].set THEN cfg.timeout[section].value
    ELSE DefaultTimeout

\* An outgoing request. messages is empty for the ollama payload, which
\* carries the prompt in a field of its own; timeout is 0 when the adapter
\* passes none (the SDK clients).
Request(adapter, provider, model, prompt, images, messages, timeout) ==
    [adapter |-> adapter, provider |-> provider, model |-> model,
     prompt |-> prompt, images |-> images, messages |-> messages,
     timeout |-> timeout]

Sent(adapter, provider, model, prompt, images, messages, timeout, outcome) ==
    [ret |-> ResponseOf(adapter, outcome),
     invoked |-> <<adapter>>,
     requests |-> <<Request(adapter, provider, model, prompt, images,
                            messages, timeout)>>]

NotSent(adapter, ret) ==
    [ret |-> ret, invoked |-> <<adapter>>, requests |-> <<>>]

\* LLMManager._call_ollama
call_ollama(cfg, model, prompt, image, outcome) ==
    Catch(IF cfg.cred["ollama"] = "missing"
          THEN NotSent("ollama", Exc)
          ELSE Sent("ollama", "ollama", model, prompt, InlineImages(image),
                    <<>>, timeout_of(cfg, "ollama"), outcome))

\* LLMManager._call_openai
call_openai(cfg, model, prompt, image, outcome) ==
    Catch(IF cfg.cred["openai"] = "missing"
          THEN NotSent("openai", Exc)
          ELSE Sent("openai", "openai", model, prompt, InlineImages(image),
                    InlineMessages(prompt, image), 0, outcome))

\* LLMManager._call_claude
call_claude(cfg, model, prompt, image, outcome) ==
    Catch(IF cfg.cred["claude"] = "missing"
          THEN NotSent("claude", Exc)
          ELSE Sent("claude", "claude", model, prompt, InlineImages(image),
                    InlineMessages(prompt, image), 0, outcome))

\* LLMManager._call_doubao
call_doubao(cfg, model, prompt, image, outcome) ==
    Catch(IF cfg.cred["doubao"] = "missing"
          THEN NotSent("doubao", None)
          ELSE Sent("doubao", "doubao", model, prompt, DoubaoImages(image),
                    DoubaoMessages(prompt, image), 0, outcome))

\* LLMManager._call_custom_api: the timeout is read from the ollama section.
call_custom_api(cfg, provider, model, prompt, image, outcome) ==
    Catch(IF cfg.cred[provider] = "missing"
          THEN NotSent("custom", None)
          ELSE Sent("custom", provider, model, prompt, InlineImages(image),
                    InlineMessages(prompt, image), timeout_of(cfg, "ollama"),
                    outcome))

NoCall(ret) == [ret |-> ret, invoked |-> <<>>, requests |-> <<>>]

\* A provider branch that rejects an id it does not know.
Dispatch_strict(cfg, provider, model, prompt, image, outcome) ==
    CASE provider = "ollama" -> call_ollama(cfg, model, prompt, image, outcome)
      [] provider = "openai" -> call_openai(cfg, model, prompt, image, outcome)
      [] provider = "claude" -> call_claude(cfg, model, prompt, image, outcome)
      [] provider = "doubao" -> call_doubao(cfg, model, prompt, image, outcome)
      [] OTHER -> NoCall(Exc)

\* The provider branch of process_text and process_image.
Dispatch(cfg, provider, model, prompt, image, outcome) ==
    CASE provider = "ollama" -> call_ollama(cfg, model, prompt, image, outcome)
      [] provider = "openai" -> call_openai(cfg, model, prompt, image, outcome)
      [] provider = "claude" -> call_claude(cfg, model, prompt, image, outcome)
      [] provider = "doubao" -> call_doubao(cfg, model, prompt, image, outcome)
      [] OTHER -> call_custom_api(cfg, provider, model, prompt, image, outcome)

\* str.format(content=text) on the role's template raises on a template with
\* an unmatched brace or an unknown field.
FormatRaises(template) == template = "malformed"

\* str.format(content=text): the prompt carries the content when the template
\* has the placeholder.
FormatPrompt(template, text) ==
    IF template = "default" THEN <<"default", text>> ELSE <<template>>

\* The fixed prompt of the vision role.
VisionPrompt == <<"vision">>

\* A process_text that falls back on the vision role when the text role has
\* no provider or no model.
process_text_fallback(cfg, text, outcome) ==
    IF ~is_enabled(cfg) THEN NoCall(None)
    ELSE Catch(
        IF cfg.text_provider = None \/ cfg.text_model = None
        THEN IF cfg.vision_provider = None \/ cfg.vision_model = None
             THEN NoCall(None)
             ELSE Dispatch(cfg, cfg.vision_provider, cfg.vision_model,
                           FormatPrompt("default", text), None, outcome)
        ELSE IF FormatRaises(cfg.text_prompt)
        THEN NoCall(Exc)
        ELSE Dispatch(cfg, cfg.text_provider, cfg.text_model,
                      FormatPrompt(cfg.text_prompt, text), None, outcome))

\* LLMManager.process_text
process_text(cfg, text, outcome) ==
    IF ~is_enabled(cfg) THEN NoCall(None)
    ELSE Catch(
        IF cfg.text_provider = None \/ cfg.text_model = None
        THEN NoCall(None)
        ELSE IF FormatRaises(cfg.text_prompt)
        THEN NoCall(Exc)
        ELSE Dispatch(cfg, cfg.text_provider, cfg.text_model,
                      FormatPrompt(cfg.text_prompt, text), None, outcome))

\* LLMManager.process_image
process_image(cfg, image, outcome) ==
    IF ~is_enabled(cfg) THEN NoCall(None)
    ELSE Catch(
        IF cfg.vision_provider = None \/ cfg.vision_model = None
        THEN NoCall(None)
        ELSE Dispatch(cfg, cfg.vision_provider, cfg.vision_model,
                      VisionPrompt, image, outcome))

\* What the local server does with the GET of the health probe: it answers
\* 200, it answers another status, or requests.get raises (refused, timed
\* out).
ProbeAnswers == {"status_200", "status_500", "exception"}

\* The answer a probe gets from a server that is up, or is not.
AnswerOf(up) == IF up THEN "status_200" ELSE "exception"

\* A health probe that waits as long as a call.
health_timeout_full(cfg) == timeout_of(cfg, "ollama")

\* min(timeout, 10)
health_timeout(cfg) ==
    IF timeout_of(cfg, "ollama") < HealthCap
    THEN timeout_of(cfg, "ollama") ELSE HealthCap

\* The GET the health probe sends.
HealthRequest(cfg) == [url |-> "/api/tags", timeout |-> health_timeout(cfg)]

\* The requests a provider's availability check sends: the local server is
\* probed, the other checks only read the configuration.
probe_requests(cfg, provider) ==
    IF provider = "ollama" THEN <<HealthRequest(cfg)>> ELSE <<>>

\* LLMManager._check_ollama_availability: response.status_code == 200, and
\* False from the except clause.
check_ollama_availability(cfg, answer) ==
    IF answer = "exception" THEN FALSE ELSE answer = "status_200"

\* LLMManager._check_openai_availability
check_openai_availability(cfg) == cfg.cred["openai"] = "valid"

\* LLMManager._check_claude_availability
check_claude_availability(cfg) == cfg.cred["claude"] = "valid"

\* LLMManager._check_doubao_availability: any non-empty key passes.
check_doubao_availability(cfg) == cfg.cred["doubao"] # "missing"

\* LLMManager._check_custom_api_availability: api_key and api_url present.
check_custom_api_availability(cfg, provider) == cfg.cred[provider] # "missing"

\* LLMManager._check_provider_availability
check_provider_availability(cfg, provider, answer) ==
    CASE provider = "ollama" -> check_ollama_availability(cfg, answer)
      [] provider = "openai" -> check_openai_availability(cfg)
      [] provider = "claude" -> check_claude_availability(cfg)
      [] provider = "doubao" -> check_doubao_availability(cfg)
      [] OTHER -> check_custom_api_availability(cfg, provider)

\* The set built in check_availability from the two roles' providers.
providers_to_check(cfg) == {cfg.text_provider, cfg.vision_provider} \ {None}

\* check_availability as it would be if one passing provider were enough.
check_availability_any(cfg, answer) ==
    IF ~is_enabled(cfg) THEN FALSE
    ELSE \E p \in providers_to_check(cfg) : check_provider_availability(cfg, p, answer)

\* LLMManager.check_availability
check_availability(cfg, answer) ==
    IF ~is_enabled(cfg) THEN FALSE
    ELSE \A p \in providers_to_check(cfg) : check_provider_availability(cfg, p, answer)

\* LLMManager.validate_config
validate_config(cfg) ==
    IF ~cfg.enabled THEN TRUE
    ELSE /\ cfg.text_provider # None /\ cfg.text_model # None
         /\ cfg.vision_provider # None /\ cfg.vision_model # None

\* ScreenCaptureApp.check_llm_availability
check_llm_availability(cfg, answer) ==
    IF ~is_enabled(cfg) THEN FALSE
    ELSE IF ~validate_config(cfg) THEN FALSE
    ELSE check_availability(cfg, answer)

\* ------------------------------------------------------- configurations
\* No provider section configures a timeout.
NoTimeouts == [p \in ProviderIds |-> [set |-> FALSE, value |-> 0]]

\* Every configuration of the two roles; a provider no role refers to is
\* left unconfigured.
Configs ==
    {c \in [enabled : BOOLEAN,
            text_provider : ProviderIds \cup {None},
            text_model : {None, "m"},
            text_prompt : PromptTemplates,
            vision_provider : ProviderIds \cup {None},
            vision_model : {None, "m"},
            cred : [ProviderIds -> CredStates],
            timeout : {NoTimeouts}] :
        \A p \in ProviderIds :
            p \notin {c.text_provider, c.vision_provider} => c.cred[p] = "missing"}

\* The last call into the gateway: the operation, its argument, what the
\* backend answered, the result, and, when the call before it was the same
\* call (again), the result of that one (prev).
NoLast == [op |-> "none", arg |-> None, outcome |-> None,
           res |-> NoCall(None), avail |-> FALSE,
           again |-> FALSE, prev |-> NoCall(None)]

\* Whether a call repeats the last one, and the result the last one had.
Repeats(op, arg, outcome) ==
    last.op = op /\ last.arg = arg /\ last.outcome = outcome
PrevResult(op, arg, outcome) ==
    IF Repeats(op, arg, outcome) THEN last.res ELSE NoCall(None)

\* ------------------------------------------------------- key listener
MaxListeners == 3

\* KeyboardListener.__init__: no pynput listener yet. listener is the number
\* of the current pynput listener (0 for None), created how many were
\* created, alive the ones whose thread runs, stops how often stop() was
\* called on each.
NewKeyboardListener ==
    [running |-> FALSE, listener |-> 0, created |-> 0, alive |-> {},
     stops |-> <<>>]

\* A start_listening without the test of self.running.
start_listening_unguarded(kl) ==
    [kl EXCEPT !.running = TRUE,
               !.created = @ + 1,
               !.listener = kl.created + 1,
               !.alive = @ \cup {kl.created + 1},
               !.stops = Append(@, 0)]

\* KeyboardListener.start_listening: nothing when self.running is set,
\* otherwise a new pynput listener is created and started.
start_listening(kl) ==
    IF kl.running THEN kl
    ELSE [kl EXCEPT !.running = TRUE,
                    !.created = @ + 1,
                    !.listener = kl.created + 1,
                    !.alive = @ \cup {kl.created + 1},
                    !.stops = Append(@, 0)]

\* KeyboardListener.stop_listening
stop_listening(kl) ==
    IF kl.listener # 0 /\ kl.running
    THEN [kl EXCEPT !.alive = @ \ {kl.listener},
                    !.stops[kl.listener] = @ + 1,
                    !.running = FALSE]
    ELSE kl

\* KeyboardListener.is_running
is_running(kl) == kl.running /\ kl.listener # 0 /\ kl.listener \in kl.alive

\* The thread of the current pynput listener ends on its own.
listener_dies(kl) == [kl EXCEPT !.alive = @ \ {kl.listener}]

\* No request has reached the results store yet.
NoResponse == [op |-> "none", analysis |-> None, id |-> None, io |-> "ok",
               status |-> 0, before |-> 0, prior |-> <<>>]

\* The application has not been started. watched tells whether the main
\* loop has looked at the listener since the listener last stopped, on its
\* own or through stop().
NoBoot == [phase |-> "new", llm_present |-> TRUE, email_fields_ok |-> TRUE,
           web_starts |-> TRUE, watched |-> FALSE]

\* The results store and the startup at rest, for the specifications that
\* do not exercise them.
OtherIdle ==
    /\ results = <<>>
    /\ response = NoResponse
    /\ boot = NoBoot
    /\ keyboard_listener = start_listening(NewKeyboardListener)

\* The trigger engine at rest, for the specifications that exercise the
\* gateway alone.
TriggerIdle ==
    /\ now = 0
    /\ trigger_count = 3
    /\ trigger_timeout = 4
    /\ enter_times = <<>>
    /\ shift_times = <<>>
    /\ handlers = <<>>
    /\ events = [k \in Kinds |-> <<>>]
    /\ keys_seen = 0
    /\ OtherIdle

\* ------------------------------------------------ gateway specification
GatewayInit ==
    /\ TriggerIdle
    /\ llm_config \in Configs
    /\ ollama_up \in BOOLEAN
    /\ llm_status = check_llm_availability(llm_config, AnswerOf(ollama_up))
    /\ email_enabled = FALSE
    /\ web_enabled = FALSE
    /\ last = NoLast

\* A manager that switches itself off once a call came back absent.
manager_after_breaker(cfg, res) ==
    IF res.ret = None THEN [cfg EXCEPT !.enabled = FALSE] ELSE cfg

\* The attributes of the manager (config, llm_config, enabled) after a call
\* that returned res. They are assigned in __init__ and nowhere else: the
\* methods and the adapters build their client, payload and messages as
\* locals of the call.
manager_after(cfg, res) == cfg

\* What a call from outside the gateway leaves behind: the manager as the
\* call left it, everything else as it was.
GatewayFrame(res) ==
    /\ llm_config' = manager_after(llm_config, res)
    /\ UNCHANGED <<triggerVars, ollama_up, llm_status, email_enabled,
                   web_enabled, otherVars>>

\* A call of process_text from outside the gateway.
CallProcessText ==
    \E text \in Texts, outcome \in Outcomes :
        LET res == process_text(llm_config, text, outcome)
        IN /\ last' = [op |-> "process_text", arg |-> text, outcome |-> outcome,
                       res |-> res, avail |-> FALSE,
                       again |-> Repeats("process_text", text, outcome),
                       prev |-> PrevResult("process_text", text, outcome)]
           /\ GatewayFrame(res)

\* A call of process_image from outside the gateway.
CallProcessImage ==
    \E image \in Images, outcome \in Outcomes :
        LET res == process_image(llm_config, image, outcome)
        IN /\ last' = [op |-> "process_image", arg |-> image, outcome |-> outcome,
                       res |-> res, avail |-> FALSE,
                       again |-> Repeats("process_image", image, outcome),
                       prev |-> PrevResult("process_image", image, outcome)]
           /\ GatewayFrame(res)

\* A call of check_availability.
CallCheckAvailability ==
    /\ last' = [op |-> "check_availability", arg |-> None, outcome |-> None,
                res |-> NoCall(None),
                avail |-> check_availability(llm_config, AnswerOf(ollama_up)),
                again |-> Repeats("check_availability", None, None),
                prev |-> PrevResult("check_availability", None, None)]
    /\ UNCHANGED <<triggerVars, configVars, otherVars>>

GatewayNext == CallProcessText \/ CallProcessImage \/ CallCheckAvailability

GatewaySpec == GatewayInit /\ [][GatewayNext]_vars

\* ------------------------------------------------ provider specification
\* The configurations the provider sections are exercised with: analysis
\* enabled, both roles on one provider, and the ollama section and the
\* section of the custom provider each with or without a timeout.
TimeoutMaps ==
    {[p \in ProviderIds |-> IF p = "ollama" THEN a
                            ELSE IF p = "qwen" THEN b
                            ELSE [set |-> FALSE, value |-> 0]] :
        a \in TimeoutSettings, b \in TimeoutSettings}

ProviderConfigs ==
    {[c EXCEPT !.timeout = t] :
        c \in {d \in Configs : /\ d.enabled
                                /\ d.text_provider # None
                                /\ d.vision_provider = d.text_provider
                                /\ d.text_model = "m"
                                /\ d.vision_model = "m"
                                /\ d.text_prompt = "default"},
        t \in TimeoutMaps}

ProviderInit ==
    /\ TriggerIdle
    /\ llm_config \in ProviderConfigs
    /\ ollama_up \in BOOLEAN
    /\ llm_status = check_llm_availability(llm_config, AnswerOf(ollama_up))
    /\ email_enabled = FALSE
    /\ web_enabled = FALSE
    /\ last = NoLast

\* A call of _check_provider_availability for one provider, and what the
\* local server answers if it is probed.
CallCheckProvider ==
    \E provider \in ProviderIds, answer \in ProbeAnswers :
        /\ last' = [op |-> "check_provider", arg |-> provider, outcome |-> answer,
                    res |-> [ret |-> None, invoked |-> <<>>,
                             requests |-> probe_requests(llm_config, provider)],
                    avail |-> check_provider_availability(llm_config, provider,
                                                          answer),
                    again |-> Repeats("check_provider", provider, answer),
                    prev |-> PrevResult("check_provider", provider, answer)]
        /\ UNCHANGED <<triggerVars, configVars, otherVars>>

ProviderNext ==
    CallProcessText \/ CallProcessImage \/ CallCheckAvailability
        \/ CallCheckProvider

ProviderSpec == ProviderInit /\ [][ProviderNext]_vars

\* ------------------------------------------------------- trigger engine

\* _clean_old_timestamps as it would be if it dropped nothing.
clean_old_timestamps_keep(timestamps, clock, timeout) == timestamps

\* KeyboardListener._clean_old_timestamps; clock is the value its own call of
\* time.time() returns.
clean_old_timestamps(timestamps, clock, timeout) ==
    SelectSeq(timestamps, LAMBDA t : clock - t <= timeout)

\* The condition of KeyboardListener._check_trigger.
check_trigger(timestamps, count, callback) ==
    Len(timestamps) >= count /\ callback

\* The thread _check_trigger starts: the callback at its first statement.
\* ev is the number of the key event (of that kind) that started it; calls
\* counts the adapters the handler has invoked; captured tells whether the
\* capture succeeded and artifact what it returned (the callback's local
\* screenshot_path or clipboard_content, never assigned again); web tells how the post to the results store went and posted
\* the status the handler got back (0 when it got none); mailed tells whether
\* the mail sender was called. request is the request the handler sent to
\* the web service, waiting there ("pending") or handled ("served"), and
\* status what the service answered to it.
NewHandler(kind, ev) ==
    [kind |-> kind, ev |-> ev, pc |-> "start", analysis |-> None, calls |-> 0,
     captured |-> FALSE, artifact |-> None, web |-> "none", posted |-> 0,
     mailed |-> FALSE, request |-> "none", status |-> 0]

\* What _check_trigger does to the thread list.
start_handler(hs, fire, kind, ev) ==
    IF fire THEN Append(hs, NewHandler(kind, ev)) ELSE hs

\* What _check_trigger leaves in the window.
after_check(timestamps, fire) == IF fire THEN <<>> ELSE timestamps

\* The kind of trigger a key feeds, as the branches of _on_key_press tell.
KindOf(key) ==
    CASE key = "enter" -> "capture"
      [] key \in {"shift", "shift_l", "shift_r"} -> "send"
      [] OTHER -> None

\* The window of one kind.
WindowOf(kind) == IF kind = "capture" THEN enter_times ELSE shift_times

\* _on_key_press as it would be if both kinds counted in one shared list: a
\* fire empties the other kind's window too.
OnTriggerKey_shared(key, skew, maxTime) ==
    LET kind == KindOf(key)
        current_time == now
        cleaned == clean_old_timestamps(WindowOf(kind), now + skew, trigger_timeout)
        appended == Append(cleaned, current_time)
        fire == check_trigger(appended, trigger_count, TRUE)
    IN  /\ kind # None
        /\ now + skew <= maxTime
        /\ now' = now + skew
        /\ enter_times' = IF fire THEN <<>>
                          ELSE IF kind = "capture" THEN appended ELSE enter_times
        /\ shift_times' = IF fire THEN <<>>
                          ELSE IF kind = "send" THEN appended ELSE shift_times
        /\ events' = [events EXCEPT ![kind] = Append(@, current_time)]
        /\ handlers' = start_handler(handlers, fire, kind, Len(events[kind]) + 1)

\* _on_key_press as it would be if it appended and checked before purging.
OnTriggerKey_check_first(key, skew, maxTime) ==
    LET kind == KindOf(key)
        current_time == now
        appended == Append(WindowOf(kind), current_time)
        fire == check_trigger(appended, trigger_count, TRUE)
        cleaned == clean_old_timestamps(appended, now + skew, trigger_timeout)
    IN  /\ kind # None
        /\ now + skew <= maxTime
        /\ now' = now + skew
        /\ enter_times' = IF kind = "capture" THEN after_check(cleaned, fire)
                          ELSE enter_times
        /\ shift_times' = IF kind = "send" THEN after_check(cleaned, fire)
                          ELSE shift_times
        /\ events' = [events EXCEPT ![kind] = Append(@, current_time)]
        /\ handlers' = start_handler(handlers, fire, kind, Len(events[kind]) + 1)

\* KeyboardListener._on_key_press for Enter or a Shift key. current_time is
\* read first; _clean_old_timestamps then reads the clock again, skew ticks
\* later.
OnTriggerKey(key, skew, maxTime) ==
    LET kind == KindOf(key)
        current_time == now
        cleaned == clean_old_timestamps(WindowOf(kind), now + skew, trigger_timeout)
        appended == Append(cleaned, current_time)
        fire == check_trigger(appended, trigger_count, TRUE)
    IN  /\ kind # None
        /\ now + skew <= maxTime
        /\ now' = now + skew
        /\ enter_times' = IF kind = "capture" THEN after_check(appended, fire)
                          ELSE enter_times
        /\ shift_times' = IF kind = "send" THEN after_check(appended, fire)
                          ELSE shift_times
        /\ events' = [events EXCEPT ![kind] = Append(@, current_time)]
        /\ handlers' = start_handler(handlers, fire, kind, Len(events[kind]) + 1)

\* A listener that starts the count afresh on any other key.
OnOtherKey_reset(key) ==
    /\ KindOf(key) = None
    /\ enter_times' = <<>>
    /\ shift_times' = <<>>
    /\ UNCHANGED <<now, events, handlers>>

\* KeyboardListener._on_key_press for any other key: no branch is taken.
OnOtherKey(key) ==
    /\ KindOf(key) = None
    /\ UNCHANGED <<now, enter_times, shift_times, events, handlers>>

\* Key delivery as it would be if the callback ran on the listener's thread:
\* no key is processed until every handler has returned.
OnKeyPress_blocking(maxEvents, maxTime) ==
    /\ \A i \in 1..Len(handlers) : handlers[i].pc \in {"done", "crashed"}
    /\ is_running(keyboard_listener)
    /\ keys_seen < maxEvents
    /\ keys_seen' = keys_seen + 1
    /\ \E key \in Keys :
          \/ \E skew \in 0..MaxSkew : OnTriggerKey(key, skew, maxTime)
          \/ OnOtherKey(key)
    /\ UNCHANGED <<trigger_count, trigger_timeout, configVars, last, otherVars>>

\* The thread of a running pynput listener delivers one key-down event.
OnKeyPress(maxEvents, maxTime) ==
    /\ is_running(keyboard_listener)
    /\ keys_seen < maxEvents
    /\ keys_seen' = keys_seen + 1
    /\ \E key \in Keys :
          \/ \E skew \in 0..MaxSkew : OnTriggerKey(key, skew, maxTime)
          \/ OnOtherKey(key)
    /\ UNCHANGED <<trigger_count, trigger_timeout, configVars, last, otherVars>>

\* Time passes.
Advance(maxTime) ==
    /\ now < maxTime
    /\ now' = now + 1
    /\ UNCHANGED <<trigger_count, trigger_timeout, enter_times, shift_times,
                   handlers, events, keys_seen, configVars, last, otherVars>>

\* ------------------------------------------------ trigger specification
TriggerCounts == {2, 3}
TriggerTimeouts == {2, 4}

\* A configuration with analysis switched off.
DisabledConfig ==
    [enabled |-> FALSE, text_provider |-> None, text_model |-> None,
     text_prompt |-> "default", vision_provider |-> None,
     vision_model |-> None, cred |-> [p \in ProviderIds |-> "missing"],
     timeout |-> NoTimeouts]

TriggerInit ==
    /\ now = 0
    /\ trigger_count \in TriggerCounts
    /\ trigger_timeout \in TriggerTimeouts
    /\ enter_times = <<>>
    /\ shift_times = <<>>
    /\ handlers = <<>>
    /\ events = [k \in Kinds |-> <<>>]
    /\ keys_seen = 0
    /\ llm_config = DisabledConfig
    /\ ollama_up = FALSE
    /\ llm_status = check_llm_availability(llm_config, AnswerOf(ollama_up))
    /\ email_enabled = FALSE
    /\ web_enabled = FALSE
    /\ last = NoLast
    /\ OtherIdle

KeyPress == OnKeyPress(MaxEvents, MaxTime)
Tick == Advance(MaxTime)

TriggerNext == KeyPress \/ Tick

TriggerSpec == TriggerInit /\ [][TriggerNext]_vars

\* ----------------------------------------------- listener specification
\* start_listening and stop_listening called in any order, the pynput
\* listener stopping on its own, and keys delivered while one is running.
ListenerMaxEvents == 2
ListenerMaxTime == 1

ListenerInit ==
    /\ now = 0
    /\ trigger_count = 2
    /\ trigger_timeout = 2
    /\ enter_times = <<>>
    /\ shift_times = <<>>
    /\ handlers = <<>>
    /\ events = [k \in Kinds |-> <<>>]
    /\ keys_seen = 0
    /\ llm_config = DisabledConfig
    /\ ollama_up = FALSE
    /\ llm_status = check_llm_availability(llm_config, AnswerOf(ollama_up))
    /\ email_enabled = FALSE
    /\ web_enabled = FALSE
    /\ last = NoLast
    /\ results = <<>>
    /\ response = NoResponse
    /\ boot = NoBoot
    /\ keyboard_listener = NewKeyboardListener

ListenerFrame ==
    UNCHANGED <<triggerVars, configVars, last, results, response, boot>>

CallStartListening ==
    /\ keyboard_listener.running \/ keyboard_listener.created < MaxListeners
    /\ keyboard_listener' = start_listening(keyboard_listener)
    /\ ListenerFrame

CallStopListening ==
    /\ keyboard_listener' = stop_listening(keyboard_listener)
    /\ ListenerFrame

\* The thread of the current pynput listener ends on its own.
ListenerDies ==
    /\ is_running(keyboard_listener)
    /\ keyboard_listener' = listener_dies(keyboard_listener)
    /\ ListenerFrame

ListenerKeyPress == OnKeyPress(ListenerMaxEvents, ListenerMaxTime)
ListenerTick == Advance(ListenerMaxTime)

ListenerNext ==
    CallStartListening \/ CallStopListening \/ ListenerDies
        \/ ListenerKeyPress \/ ListenerTick

ListenerSpec == ListenerInit /\ [][ListenerNext]_vars

\* ------------------------------------------------------- results store

\* The request models ScreenshotData and ClipboardData declare analysis as a
\* required str: a body whose analysis is null fails validation.
valid_body(body) == body.analysis # None

\* generate_id: the wall clock, formatted.
generate_id(clock) == ToString(clock)

\* What can happen to results.json while a request is handled: nothing, the
\* read fails, the rewrite fails before the file is opened for writing, or
\* the write fails after open(.., "w") has emptied the file.
StoreIo == {"ok", "read_fails", "fail", "write_fails"}

\* load_results: the stored list; [] when the file cannot be read.
load_results(store, io) == IF io = "read_fails" THEN <<>> ELSE store

\* save_results: the list load_results reads back afterwards, and whether an
\* exception was raised. open(RESULTS_FILE, "w") empties the file before
\* json.dump writes; load_results turns an empty or non-JSON file into [].
save_results(old, new, io) ==
    IF io \in {"ok", "read_fails"}
    THEN [raised |-> FALSE, results |-> new]
    ELSE IF io = "write_fails"
    THEN [raised |-> TRUE, results |-> <<>>]
    ELSE [raised |-> TRUE, results |-> old]

\* receive_screenshot / receive_clipboard: a body that fails validation is
\* answered 422 before the endpoint runs; otherwise load_results, append,
\* save_results, and an exception is answered 500.
receive(store, body, clock, io) ==
    IF ~valid_body(body)
    THEN [status |-> 422, results |-> store]
    ELSE LET loaded == load_results(store, io)
             saved == save_results(store,
                                   Append(loaded, [id |-> generate_id(clock),
                                                   type |-> body.type,
                                                   analysis |-> body.analysis]),
                                   io)
         IN [status |-> IF saved.raised THEN 500 ELSE 200,
             results |-> saved.results]

\* delete_result: drop every record with the id; 404, with nothing saved,
\* when none of the records read had it; an exception while the shorter list
\* is saved is answered 500.
delete_result(store, id, io) ==
    LET loaded == load_results(store, io)
        kept == SelectSeq(loaded, LAMBDA r : r.id # id)
    IN IF Len(kept) = Len(loaded)
       THEN [status |-> 404, results |-> store]
       ELSE LET saved == save_results(store, kept, io)
            IN [status |-> IF saved.raised THEN 500 ELSE 200,
                results |-> saved.results]

\* ------------------------------------------------------- fired handlers

\* The frame of every handler step: a handler thread touches neither the
\* clock nor the listener.
HandlerFrame ==
    UNCHANGED <<now, trigger_count, trigger_timeout, events, keys_seen,
                configVars, last, response, boot, keyboard_listener>>

\* A handler that resets the listener's windows.
handler_windows_clear(enter, shift) == << <<>>, <<>> >>

\* What a step of a handler does to the two trigger windows: nothing.
handler_windows(enter, shift) == <<enter, shift>>

\* One step of handler i that takes it to the record h and leaves the
\* results store holding store.
HandlerPost(i, h, store) ==
    /\ handlers' = [handlers EXCEPT ![i] = h]
    /\ enter_times' = handler_windows(enter_times, shift_times)[1]
    /\ shift_times' = handler_windows(enter_times, shift_times)[2]
    /\ results' = store
    /\ HandlerFrame

\* One step of handler i that takes it to the record h.
HandlerMove(i, h) == HandlerPost(i, h, results)

\* What take_screenshot (a saved file) or get_clipboard_content (a text, or
\* a text of blanks only, which is truthy) returns when it succeeds.
Artifacts(kind) == IF kind = "capture" THEN {"file"} ELSE {"text", "blank"}

\* What a statement that uses the path of a screenshot can find there: the
\* file, a file it cannot read, or nothing. Each use looks again: the file
\* can have been removed meanwhile (cleanup_old_screenshots of another
\* handler, or anything else), and a later capture within the same second
\* saves under the same name.
FileStates == {"readable", "unreadable", "gone"}

\* What a handler finds of its artifact when it next uses it. A text is held
\* in the callback's local: it was read from the clipboard once.
Found(kind) == IF kind = "capture" THEN FileStates ELSE {"held"}

\* The image reference open(path, "rb") makes of what it finds.
ImageOf(found) == IF found = "readable" THEN "file_ok" ELSE "file_bad"

\* on_screenshot_trigger / on_clipboard_trigger up to the test of the
\* captured artifact: take_screenshot or get_clipboard_content returns the
\* artifact or None.
HandlerCapture(i) ==
    /\ handlers[i].pc = "start"
    /\ \E a \in Artifacts(handlers[i].kind) \cup {None} :
          HandlerMove(i, [handlers[i] EXCEPT
                             !.pc = IF a # None THEN "analyze" ELSE "done",
                             !.captured = (a # None),
                             !.artifact = a])

\* The gateway call a handler or the mail sender makes for its artifact.
Analysis(kind, image, outcome) ==
    IF kind = "capture"
    THEN process_image(llm_config, image, outcome)
    ELSE process_text(llm_config, "abc", outcome)

\* Whether a handler asks the gateway at all: the test of is_enabled() in
\* the callbacks and in the mail sender.
handler_uses_llm(cfg, status) == is_enabled(cfg)

\* The analysis step as it would be if a failed analysis ended the handler.
HandlerAnalyze_abort(i) ==
    /\ handlers[i].pc = "analyze"
    /\ IF handler_uses_llm(llm_config, llm_status)
       THEN \E found \in Found(handlers[i].kind), outcome \in Outcomes :
              LET res == Analysis(handlers[i].kind, ImageOf(found), outcome)
              IN HandlerMove(i, [handlers[i] EXCEPT
                                   !.pc = IF res.ret = None THEN "done" ELSE "web",
                                   !.analysis = res.ret,
                                   !.calls = @ + Len(res.invoked)])
       ELSE HandlerMove(i, [handlers[i] EXCEPT !.pc = "web"])

\* The analysis step of a handler.
HandlerAnalyze(i) ==
    /\ handlers[i].pc = "analyze"
    /\ IF handler_uses_llm(llm_config, llm_status)
       THEN \E found \in Found(handlers[i].kind), outcome \in Outcomes :
              LET res == Analysis(handlers[i].kind, ImageOf(found), outcome)
              IN HandlerMove(i, [handlers[i] EXCEPT !.pc = "web",
                                                   !.analysis = res.ret,
                                                   !.calls = @ + Len(res.invoked)])
       ELSE HandlerMove(i, [handlers[i] EXCEPT !.pc = "web"])

\* The JSON body a handler posts to the results store: the endpoint it is
\* posted to (by kind) and the analysis, null when absent.
PostBody(kind, analysis) ==
    [type |-> IF kind = "capture" THEN "screenshot" ELSE "clipboard",
     analysis |-> analysis]

\* The post to the results store, made when the web service is enabled. The
\* screenshot is opened and read inside the try before the request is built:
\* when that fails (the file is gone, or is there and cannot be read) no
\* request is made. When the connection is refused (the web service is not
\* up) the exception is swallowed and the mail step follows; otherwise the
\* request reaches the service and the handler waits in requests.post.
HandlerWeb(i) ==
    /\ handlers[i].pc = "web"
    /\ IF web_enabled
       THEN \E found \in Found(handlers[i].kind) :
              IF found \in {"unreadable", "gone"}
              THEN HandlerMove(i, [handlers[i] EXCEPT !.pc = "email",
                                                     !.web = "no_request"])
              ELSE \E connected \in BOOLEAN :
                     HandlerMove(i, [handlers[i] EXCEPT
                         !.pc = IF connected THEN "posting" ELSE "email",
                         !.web = IF connected THEN @ ELSE "no_answer",
                         !.request = IF connected THEN "pending" ELSE @])
       ELSE HandlerMove(i, [handlers[i] EXCEPT !.pc = "email"])

\* The thread of the web service handles the request handler i sent:
\* receive_screenshot or receive_clipboard, whether or not the handler still
\* waits for the answer.
ServerHandles(i) ==
    /\ handlers[i].request = "pending"
    /\ \E io \in StoreIo :
          LET answer == receive(results,
                                PostBody(handlers[i].kind, handlers[i].analysis),
                                now, io)
          IN HandlerPost(i, [handlers[i] EXCEPT !.request = "served",
                                               !.status = answer.status],
                         answer.results)

\* requests.post returns with the answer of the service.
HandlerAnswered(i) ==
    /\ handlers[i].pc = "posting"
    /\ handlers[i].request = "served"
    /\ HandlerMove(i, [handlers[i] EXCEPT !.pc = "email",
                                         !.web = "answered",
                                         !.posted = handlers[i].status])

\* The 5 s timeout of requests.post expires, before or after the service
\* has handled the request: the exception is swallowed.
HandlerTimeout(i) ==
    /\ handlers[i].pc = "posting"
    /\ HandlerMove(i, [handlers[i] EXCEPT !.pc = "email",
                                         !.web = "no_answer"])

\* How a call of the mail sender ends: it returns, or an exception its
\* except clause does not hold back ends the thread, before or after the
\* sender's gateway call.
MailEnds == {"returns", "raises_before_call", "raises_after_call"}

\* send_screenshot_email / send_clipboard_email, called when mail is enabled.
\* The sender returns at once when os.path.exists finds no screenshot file
\* (exists) or the text is blank; otherwise it asks its own LLMManager for an
\* analysis, whose encoder opens the file (found), before it builds the mail.
HandlerEmail(i) ==
    /\ handlers[i].pc = "email"
    /\ IF email_enabled
       THEN \E exists \in Found(handlers[i].kind), how \in MailEnds :
            \E found \in Found(handlers[i].kind), outcome \in Outcomes :
              LET res == Analysis(handlers[i].kind, ImageOf(found), outcome)
                  asked == /\ exists # "gone"
                           /\ handlers[i].artifact # "blank"
                           /\ handler_uses_llm(llm_config, llm_status)
                           /\ how # "raises_before_call"
              IN HandlerMove(i, [handlers[i] EXCEPT
                     !.pc = IF how = "returns" THEN "done" ELSE "crashed",
                     !.mailed = TRUE,
                     !.calls = @ + (IF asked THEN Len(res.invoked) ELSE 0)])
       ELSE HandlerMove(i, [handlers[i] EXCEPT !.pc = "done"])

\* An exception nothing in the callback catches ends the handler's thread
\* before the step it is at has done anything.
HandlerRaise(i) ==
    /\ handlers[i].pc \in {"start", "analyze", "web", "posting", "email"}
    /\ HandlerMove(i, [handlers[i] EXCEPT !.pc = "crashed"])

HandlerStep ==
    \E i \in 1..Len(handlers) :
        \/ HandlerCapture(i)
        \/ HandlerAnalyze(i)
        \/ HandlerWeb(i)
        \/ HandlerAnswered(i)
        \/ HandlerTimeout(i)
        \/ HandlerEmail(i)
        \/ HandlerRaise(i)

\* A step of the web service's thread for a request of a handler.
ServerStep == \E i \in 1..Len(handlers) : ServerHandles(i)

\* ------------------------------------------- results store specification
MaxResults == 3
StoreMaxTime == 2

\* The analyses a client may post: null, the empty string, a text.
PostedAnalyses == {None, "", "text"}

StoreInit ==
    /\ TriggerIdle
    /\ llm_config = DisabledConfig
    /\ ollama_up = FALSE
    /\ llm_status = check_llm_availability(llm_config, AnswerOf(ollama_up))
    /\ email_enabled = FALSE
    /\ web_enabled = TRUE
    /\ last = NoLast

StoreFrame ==
    UNCHANGED <<triggerVars, configVars, last, boot, keyboard_listener>>

\* A POST to /api/screenshot or /api/clipboard by a client of the web
\* service, while the store holds fewer than maxResults records. The request
\* and its answer are recorded in response when tracked is set.
PostRequest(type, tracked, maxResults) ==
    /\ Len(results) < maxResults
    /\ \E analysis \in PostedAnalyses, io \in StoreIo :
          LET answer == receive(results, [type |-> type, analysis |-> analysis],
                                now, io)
          IN /\ results' = answer.results
             /\ response' = IF tracked
                            THEN [op |-> type, analysis |-> analysis,
                                  id |-> None, io |-> io,
                                  status |-> answer.status,
                                  before |-> Len(results), prior |-> results]
                            ELSE response
    /\ StoreFrame

ReceiveScreenshot == PostRequest("screenshot", TRUE, MaxResults)
ReceiveClipboard == PostRequest("clipboard", TRUE, MaxResults)

\* A DELETE of /api/results/{result_id} by a client of the web service. The
\* request and its answer are recorded in response when tracked is set.
DeleteRequest(tracked) ==
    /\ \E t \in 0..StoreMaxTime, io \in StoreIo :
          LET answer == delete_result(results, generate_id(t), io)
          IN /\ results' = answer.results
             /\ response' = IF tracked
                            THEN [op |-> "delete", analysis |-> None,
                                  id |-> generate_id(t), io |-> io,
                                  status |-> answer.status,
                                  before |-> Len(results), prior |-> results]
                            ELSE response
    /\ StoreFrame

DeleteResult == DeleteRequest(TRUE)

StoreTick == Advance(StoreMaxTime)

StoreNext == ReceiveScreenshot \/ ReceiveClipboard \/ DeleteResult \/ StoreTick

StoreSpec == StoreInit /\ [][StoreNext]_vars

\* ------------------------------------------------- startup specification
\* LLMManager.validate_config on the llm section of the configuration file:
\* an absent (or empty) section is invalid.
validate_llm_section(present, cfg) ==
    IF ~present THEN FALSE ELSE validate_config(cfg)

\* EmailSender.validate_config: the SMTP fields, then the validation of the
\* analysis configuration by the sender's own LLMManager.
email_validate_config(fields_ok, present, cfg) ==
    IF ~fields_ok THEN FALSE ELSE validate_llm_section(present, cfg)

\* The configurations the application is started with: each role on the
\* local server or left without provider or model.
StartConfigs ==
    {c \in Configs :
        /\ c.text_provider \in {None, "ollama"}
        /\ c.vision_provider \in {None, "ollama"}
        /\ c.text_prompt = "default"
        /\ c.cred["ollama"] # "placeholder"}

StartInit ==
    /\ now = 0
    /\ trigger_count = 3
    /\ trigger_timeout = 4
    /\ enter_times = <<>>
    /\ shift_times = <<>>
    /\ handlers = <<>>
    /\ events = [k \in Kinds |-> <<>>]
    /\ keys_seen = 0
    /\ results = <<>>
    /\ response = NoResponse
    /\ last = NoLast
    /\ keyboard_listener = NewKeyboardListener
    /\ ollama_up \in BOOLEAN
    /\ email_enabled \in BOOLEAN
    /\ web_enabled \in BOOLEAN
    /\ llm_status = FALSE
    /\ \E present \in BOOLEAN, fields_ok \in BOOLEAN, web_starts \in BOOLEAN :
          /\ boot = [phase |-> "new", llm_present |-> present,
                     email_fields_ok |-> fields_ok, web_starts |-> web_starts,
                     watched |-> FALSE]
          /\ IF present THEN llm_config \in StartConfigs
                        ELSE llm_config = DisabledConfig

StartFrame ==
    UNCHANGED <<triggerVars, llm_config, ollama_up, email_enabled, web_enabled,
                last, results, response>>

\* initialize_components: the mail configuration is validated when mail is
\* enabled, the availability of the analysis service is checked and only
\* logged, the web service is started when enabled.
InitializeComponents ==
    /\ boot.phase = "new"
    /\ LET mail_ok == ~email_enabled
                         \/ email_validate_config(boot.email_fields_ok,
                                                  boot.llm_present, llm_config)
           web_ok == ~web_enabled \/ boot.web_starts
       IN /\ boot' = [boot EXCEPT !.phase = IF mail_ok /\ web_ok
                                            THEN "initialized"
                                            ELSE "init_failed"]
          /\ llm_status' = IF mail_ok
                           THEN check_llm_availability(llm_config, AnswerOf(ollama_up))
                           ELSE llm_status
    /\ UNCHANGED keyboard_listener
    /\ StartFrame

\* start, after the components are initialized: the test mail when mail is
\* enabled (the user may give up when it fails), then start_listening.
StartListening ==
    /\ boot.phase = "initialized"
    /\ \E test_ok \in BOOLEAN, answer \in {"y", "n"} :
          IF email_enabled /\ ~test_ok /\ answer # "y"
          THEN /\ boot' = [boot EXCEPT !.phase = "aborted"]
               /\ UNCHANGED keyboard_listener
          ELSE /\ boot' = [boot EXCEPT !.phase = "listening"]
               /\ keyboard_listener' = start_listening(keyboard_listener)
    /\ UNCHANGED llm_status
    /\ StartFrame

\* The thread of the pynput listener ends without stop_listening having
\* been called, while the main loop runs.
ListenerStops ==
    /\ boot.phase = "listening"
    /\ is_running(keyboard_listener)
    /\ keyboard_listener.created < MaxListeners
    /\ keyboard_listener' = listener_dies(keyboard_listener)
    /\ boot' = [boot EXCEPT !.watched = FALSE]
    /\ UNCHANGED llm_status
    /\ StartFrame

\* One pass of the main loop: when is_running() is false, start_listening
\* is called. A pass the loop was in when stop() was called is still made.
Watchdog ==
    /\ \/ boot.phase = "listening"
       \/ boot.phase = "stopping" /\ ~boot.watched
    /\ keyboard_listener.running \/ keyboard_listener.created < MaxListeners
    /\ keyboard_listener' =
          IF ~is_running(keyboard_listener)
          THEN start_listening(keyboard_listener)
          ELSE keyboard_listener
    /\ boot' = [boot EXCEPT !.watched = TRUE]
    /\ UNCHANGED llm_status
    /\ StartFrame

\* stop, called by the signal handler or by any other caller while the main
\* loop runs: self.running is cleared and the listener is stopped.
Stop ==
    /\ boot.phase = "listening"
    /\ boot' = [boot EXCEPT !.phase = "stopping", !.watched = FALSE]
    /\ keyboard_listener' = stop_listening(keyboard_listener)
    /\ UNCHANGED llm_status
    /\ StartFrame

\* The main loop ends (self.running is false, or SystemExit passes through)
\* and the finally clause calls stop once more.
MainLoopEnds ==
    /\ boot.phase = "stopping"
    /\ boot' = [boot EXCEPT !.phase = "stopped"]
    /\ keyboard_listener' = stop_listening(keyboard_listener)
    /\ UNCHANGED llm_status
    /\ StartFrame

StartNext ==
    InitializeComponents \/ StartListening \/ ListenerStops \/ Watchdog \/ Stop
        \/ MainLoopEnds

StartSpec == StartInit /\ [][StartNext]_vars

\* The main loop keeps running: a pass of the watchdog that is due is made.
StartFairSpec == StartSpec /\ WF_vars(Watchdog)

\* ------------------------------------------------ application specification
\* The application from the moment start() has started the listener: the
\* listener delivers keys, time passes, the fired handlers and the web
\* service run, clients post and delete results, the listener may stop on
\* its own, the main loop watches it, and stop() ends the run.
\* The analysis configurations the application is run with here: analysis
\* off, and the local server serving both roles.
OllamaConfig ==
    [enabled |-> TRUE, text_provider |-> "ollama", text_model |-> "m",
     text_prompt |-> "default", vision_provider |-> "ollama",
     vision_model |-> "m",
     cred |-> [p \in ProviderIds |-> IF p = "ollama" THEN "valid" ELSE "missing"],
     timeout |-> NoTimeouts]

\* What results.json holds when the application starts: the file persists
\* between runs, so the list is empty or holds records of an earlier run.
StoredBefore ==
    {<<>>, <<[id |-> generate_id(0), type |-> "clipboard", analysis |-> "text"]>>}

Init ==
    /\ now = 0
    /\ trigger_count = 2
    /\ trigger_timeout = 2
    /\ enter_times = <<>>
    /\ shift_times = <<>>
    /\ handlers = <<>>
    /\ events = [k \in Kinds |-> <<>>]
    /\ keys_seen = 0
    /\ \/ llm_config = DisabledConfig /\ ollama_up = FALSE
       \/ llm_config = OllamaConfig /\ ollama_up \in BOOLEAN
    /\ llm_status = check_llm_availability(llm_config, AnswerOf(ollama_up))
    /\ email_enabled \in BOOLEAN
    /\ web_enabled \in BOOLEAN
    /\ last = NoLast
    /\ results \in StoredBefore
    /\ response = NoResponse
    /\ boot = [NoBoot EXCEPT !.phase = "listening"]
    /\ keyboard_listener = start_listening(NewKeyboardListener)

AppKeyPress == OnKeyPress(AppMaxEvents, AppMaxTime)
AppTick == Advance(AppMaxTime)

\* A client posts a result or deletes one while the application runs.
AppReceive == \E type \in {"screenshot", "clipboard"} :
                 PostRequest(type, FALSE, AppMaxResults)
AppDeleteResult == DeleteRequest(FALSE)

Next ==
    AppKeyPress \/ AppTick \/ HandlerStep \/ ServerStep \/ AppReceive
        \/ AppDeleteResult \/ ListenerStops \/ Watchdog \/ Stop
        \/ MainLoopEnds

Spec == Init /\ [][Next]_vars

\* --------------------------------------------------- thread specification
\* The listener's thread and the threads it starts, for long enough that a
\* second handler is started while the first still runs: analysis and mail
\* are off, and the handlers post to the web service.
ThreadMaxTime == 1
ThreadMaxEvents == 4

ThreadInit ==
    /\ now = 0
    /\ trigger_count = 2
    /\ trigger_timeout = 2
    /\ enter_times = <<>>
    /\ shift_times = <<>>
    /\ handlers = <<>>
    /\ events = [k \in Kinds |-> <<>>]
    /\ keys_seen = 0
    /\ llm_config = DisabledConfig
    /\ ollama_up = FALSE
    /\ llm_status = check_llm_availability(llm_config, AnswerOf(ollama_up))
    /\ email_enabled = FALSE
    /\ web_enabled = TRUE
    /\ last = NoLast
    /\ results = <<>>
    /\ response = NoResponse
    /\ boot = [NoBoot EXCEPT !.phase = "listening"]
    /\ keyboard_listener = start_listening(NewKeyboardListener)

ThreadKeyPress == OnKeyPress(ThreadMaxEvents, ThreadMaxTime)
ThreadTick == Advance(ThreadMaxTime)

ThreadNext == ThreadKeyPress \/ ThreadTick \/ HandlerStep \/ ServerStep

ThreadSpec == ThreadInit /\ [][ThreadNext]_vars

\* ------------------------------------------------------------- history
\* The handlers of one kind, as positions in the thread list.
HandlersOf(kind) == {i \in 1..Len(handlers) : handlers[i].kind = kind}

\* The numbers of the key events of one kind that started a handler.
FireEvents(kind) == {handlers[i].ev : i \in HandlersOf(kind)}

Max(S) == CHOOSE x \in S : \A y \in S : y <= x

\* The number of the last event of that kind before event i that fired
\* (0 when there is none).
LastFireBefore(kind, i) == Max({f \in FireEvents(kind) : f < i} \cup {0})

\* How many events of that kind have accumulated at event i since the last
\* fire, event i included.
Accumulated(kind, i) == i - LastFireBefore(kind, i)

\* The events accumulated at event i all lie within one window, by their
\* event times.
AllWithinWindow(kind, i) ==
    events[kind][i] - events[kind][LastFireBefore(kind, i) + 1] <= trigger_timeout

\* How many of the events accumulated at event i lie in
\* [t - window, t], t the time of event i.
InWindowAt(kind, i) ==
    Cardinality({j \in (LastFireBefore(kind, i) + 1)..i :
                    events[kind][j] >= events[kind][i] - trigger_timeout})

\* ---------------------------------------------------------------- C1
\* C1: over events of one kind that all fall within the window, no handler
\* starts while fewer than trigger_count events have accumulated since the
\* last fire; the event that brings the count to trigger_count starts exactly
\* one handler and leaves the window empty, and the next event of the kind
\* only restarts the count at 1.
C1_FiresOnceWithinWindow ==
    \A kind \in Kinds : \A i \in 1..Len(events[kind]) :
        AllWithinWindow(kind, i) =>
            /\ Accumulated(kind, i) < trigger_count => i \notin FireEvents(kind)
            /\ Accumulated(kind, i) = trigger_count =>
                  /\ Cardinality({h \in HandlersOf(kind) : handlers[h].ev = i}) = 1
                  /\ i = Len(events[kind]) => WindowOf(kind) = <<>>
            /\ (i > 1 /\ i - 1 \in FireEvents(kind) /\ i = Len(events[kind])) =>
                  WindowOf(kind) = <<events[kind][i]>>

\* ---------------------------------------------------------------- C2
\* The scenario of C2 in ticks of half a second: window 2 s, three Enter
\* events at 0.0, 0.5 and 3.0.
C2_Scenario ==
    /\ trigger_count = 3
    /\ trigger_timeout = 4
    /\ events["capture"] = <<0, 1, 6>>

\* A fire at event time t had at least trigger_count events of its kind in
\* [t - window, t] since the last fire.
C2_FireHasEnoughEvents ==
    \A kind \in Kinds : \A i \in FireEvents(kind) :
        InWindowAt(kind, i) >= trigger_count

\* C2 as stated: after events at 0.0, 0.5, 3.0 the count is 2 and no handler
\* is started; a fire implies trigger_count events within the window.
C2_Original ==
    /\ C2_Scenario => Len(enter_times) = 2 /\ HandlersOf("capture") = {}
    /\ C2_FireHasEnoughEvents

\* C2 amended: after events at 0.0, 0.5, 3.0 the purge has removed both
\* earlier events (3.0 - 0.5 > 2), the count is 1 and no handler is started;
\* a fire implies trigger_count events within the window.
C2_GapNeverAccumulates ==
    /\ C2_Scenario => enter_times = <<6>> /\ HandlersOf("capture") = {}
    /\ C2_FireHasEnoughEvents

C2_Witness ==
    /\ C2_Scenario
    /\ Len(enter_times) = 1

\* ---------------------------------------------------------------- C3
GatewayCall == last.op \in {"process_text", "process_image"}

\* C3: with the gateway disabled, process_text and process_image return None,
\* raise nothing and invoke no adapter.
C3_DisabledReturnsAbsence ==
    (GatewayCall /\ ~llm_config.enabled) =>
        /\ last.res.ret = None
        /\ last.res.invoked = <<>>
        /\ last.res.requests = <<>>

C3_Witness ==
    /\ last.op = "process_image"
    /\ ~llm_config.enabled
    /\ llm_config.vision_provider = "ollama"
    /\ llm_config.vision_model # None
    /\ llm_config.cred["ollama"] = "valid"
    /\ last.outcome = "ok"
    /\ last.res.ret = None

\* ---------------------------------------------------------------- C4
\* C4: whatever the configuration and the adapter outcome, process_text and
\* process_image return a string or None; no exception leaves the gateway.
C4_NoExceptionEscapes ==
    GatewayCall => last.res.ret \in {None, "text", ""}

C4_Witness ==
    /\ last.op = "process_text"
    /\ llm_config.enabled
    /\ llm_config.text_provider # None
    /\ llm_config.text_model # None
    /\ llm_config.text_prompt = "malformed"
    /\ last.res.ret = None

\* ---------------------------------------------------------------- C5
\* C5: when the startup availability check failed, no fired handler invokes
\* an adapter.
C5_FailedCheckDisablesAnalysis ==
    ~llm_status => \A i \in 1..Len(handlers) : handlers[i].calls = 0

\* ---------------------------------------------------------------- C6
\* C6: check_availability is true only if every provider a role refers to
\* passes its own check; with one passing and one failing provider it is
\* false, whichever role refers to which.
C6_AvailabilityIsConjunction ==
    last.op = "check_availability" =>
        /\ last.avail =>
              \A p \in {llm_config.text_provider, llm_config.vision_provider} \ {None} :
                  check_provider_availability(llm_config, p, AnswerOf(ollama_up))
        /\ \A p1, p2 \in ProviderIds :
              ( /\ {llm_config.text_provider, llm_config.vision_provider} = {p1, p2}
                /\ check_provider_availability(llm_config, p1, AnswerOf(ollama_up))
                /\ ~check_provider_availability(llm_config, p2, AnswerOf(ollama_up)) )
              => ~last.avail

C6_Witness ==
    /\ last.op = "check_availability"
    /\ llm_config.enabled
    /\ llm_config.text_provider = "openai"
    /\ llm_config.vision_provider = "qwen"
    /\ ~check_provider_availability(llm_config, "openai", AnswerOf(ollama_up))
    /\ check_provider_availability(llm_config, "qwen", AnswerOf(ollama_up))
    /\ ~last.avail

\* ---------------------------------------------------------------- C7
\* C7: a provider id that is not built in is served by the custom adapter,
\* for the text role, the vision role and the availability probe, and the
\* dispatch does not fail.
C7_UnknownProviderIsCustom ==
    /\ ( /\ last.op = "process_text" /\ llm_config.enabled
          /\ llm_config.text_provider \notin BuiltinProviders \cup {None}
          /\ llm_config.text_model # None
          /\ ~FormatRaises(llm_config.text_prompt) )
        => last.res.invoked = <<"custom">> /\ last.res.ret # Exc
    /\ ( /\ last.op = "process_image" /\ llm_config.enabled
          /\ llm_config.vision_provider \notin BuiltinProviders \cup {None}
          /\ llm_config.vision_model # None )
        => last.res.invoked = <<"custom">> /\ last.res.ret # Exc
    /\ ( /\ last.op = "check_availability" /\ llm_config.enabled
          /\ {llm_config.text_provider, llm_config.vision_provider} \ {None} = {"qwen"} )
        => (last.avail <=> llm_config.cred["qwen"] # "missing")

C7_Witness ==
    /\ last.op = "process_image"
    /\ llm_config.enabled
    /\ llm_config.vision_provider = "qwen"
    /\ llm_config.vision_model # None
    /\ llm_config.cred["qwen"] = "valid"
    /\ last.res.invoked = <<"custom">>
    /\ last.res.ret = "text"

\* ---------------------------------------------------------------- C8
\* C8: the request of a text-only call carries no image, and the request of
\* an image call carries exactly one encoded image, also when the image
\* cannot be read or encoded.
C8_ImageCount ==
    \A n \in 1..Len(last.res.requests) :
        /\ last.op = "process_text" => Len(last.res.requests[n].images) = 0
        /\ last.op = "process_image" => Len(last.res.requests[n].images) = 1

\* ---------------------------------------------------------------- C9
Running(i) == handlers[i].pc \in {"start", "analyze", "web", "posting", "email"}

\* The key event just processed filled a window: the window of the kind it
\* fed is empty afterwards.
FilledWindow ==
    \E kind \in Kinds :
        /\ events'[kind] # events[kind]
        /\ (IF kind = "capture" THEN enter_times' ELSE shift_times') = <<>>

\* C9: a fire starts exactly one handler, at its first statement and without
\* waiting for any handler; while handlers run, key events are still
\* processed.
C9_FireAndForget ==
    [][ /\ keys_seen' = keys_seen + 1 =>
            /\ Len(handlers') = Len(handlers) + (IF FilledWindow THEN 1 ELSE 0)
            /\ SubSeq(handlers', 1, Len(handlers)) = handlers
            /\ FilledWindow => handlers'[Len(handlers')].pc = "start"
        /\ (keys_seen < ThreadMaxEvents /\ \E i \in 1..Len(handlers) : Running(i))
            => ENABLED ThreadKeyPress
      ]_vars

C9_Witness ==
    /\ Len(handlers) >= 2
    /\ Running(1)
    /\ handlers[1].pc # "start"
    /\ handlers[2].pc = "start"

\* ---------------------------------------------------------------- C10
\* C10: no step of a handler, a raise included, changes a trigger window.
C10_HandlersLeaveWindows ==
    [][ (handlers' # handlers /\ keys_seen' = keys_seen)
            => UNCHANGED <<enter_times, shift_times>> ]_vars

C10_Witness ==
    /\ \E i \in 1..Len(handlers) : handlers[i].pc = "crashed"
    /\ enter_times # <<>>
    /\ shift_times # <<>>

\* ---------------------------------------------------------------- C11
OtherKind(kind) == IF kind = "capture" THEN "send" ELSE "capture"

\* The window of one kind after the step.
WindowAfter(kind) == IF kind = "capture" THEN enter_times' ELSE shift_times'

\* The handlers of one kind after the step.
HandlersAfter(kind) == {i \in 1..Len(handlers') : handlers'[i].kind = kind}

\* C11: an event of one kind leaves the other kind's window and handlers as
\* they are, and whether it fires depends on its own window alone: it fires
\* exactly when its own window, purged at the clock read of the purge, holds
\* trigger_count - 1 entries.
C11_KindsIndependent ==
    [][ \A kind \in Kinds :
          events'[kind] # events[kind] =>
            /\ WindowAfter(OtherKind(kind)) = WindowOf(OtherKind(kind))
            /\ HandlersAfter(OtherKind(kind)) = HandlersOf(OtherKind(kind))
            /\ (HandlersAfter(kind) # HandlersOf(kind)) <=>
                  (Len(SelectSeq(WindowOf(kind),
                                 LAMBDA x : now' - x <= trigger_timeout)) + 1
                     >= trigger_count)
      ]_vars

C11_Witness ==
    /\ Len(handlers) = 2
    /\ handlers[1].kind = "capture"
    /\ handlers[2].kind = "send"
    /\ handlers[2].ev = 2
    /\ events["send"][1] < events["capture"][handlers[1].ev]

\* ---------------------------------------------------------------- C18
\* C18: the purge of a key event is computed relative to the event time that
\* is appended: the window after the event is the old window without the
\* entries more than trigger_timeout older than the event time, plus the
\* event time (or empty after a fire).
C18_PurgeUsesEventTime ==
    [][ \A kind \in Kinds :
          events'[kind] # events[kind] =>
            LET t == events'[kind][Len(events'[kind])]
                kept == SelectSeq(WindowOf(kind), LAMBDA x : t - x <= trigger_timeout)
                appended == Append(kept, t)
            IN WindowAfter(kind) =
                 IF Len(appended) >= trigger_count THEN <<>> ELSE appended
      ]_vars

\* ---------------------------------------------------------------- C19
LastEventTime(kind) == events[kind][Len(events[kind])]

\* C19: purge, append, check: every timestamp left in a window is at most
\* trigger_timeout older than the last event of its kind, and the
\* trigger_count events counted by a fire are the latest ones since the last
\* fire, none of them more than trigger_timeout older than the firing event.
C19_NoStaleTimestampCounts ==
    \A kind \in Kinds :
        /\ \A n \in 1..Len(WindowOf(kind)) :
              LastEventTime(kind) - WindowOf(kind)[n] <= trigger_timeout
        /\ \A i \in FireEvents(kind) :
              /\ i - trigger_count + 1 > LastFireBefore(kind, i)
              /\ events[kind][i] - events[kind][i - trigger_count + 1]
                    <= trigger_timeout

C19_Witness ==
    /\ Len(events["capture"]) = 3
    /\ events["capture"][2] - events["capture"][1] > trigger_timeout
    /\ FireEvents("capture") = {3}
    /\ trigger_count = 2

\* ---------------------------------------------------------------- C12
\* C12: for one fire the backend is asked at most once for the captured
\* artifact, delivery included.
C12_AtMostOneAnalysis ==
    \A i \in 1..Len(handlers) : handlers[i].calls <= 1

\* ---------------------------------------------------------------- C13
\* C13: a handler whose capture succeeded and whose analysis is absent still
\* makes every enabled delivery step: once past the web step it has entered
\* the post exactly when the web service is enabled, giving the request up
\* only over the screenshot file it has to read for it, and once done the
\* mail sender has been called exactly when mail is enabled.
C13_AbsentAnalysisStillDelivers ==
    \A i \in 1..Len(handlers) :
        (handlers[i].captured /\ handlers[i].analysis = None) =>
            /\ handlers[i].pc \in {"email", "done"} =>
                  /\ (handlers[i].web # "none") <=> web_enabled
                  /\ handlers[i].web = "no_request" =>
                        handlers[i].kind = "capture"
            /\ handlers[i].pc = "done" => (handlers[i].mailed <=> email_enabled)

C13_Witness ==
    \E i \in 1..Len(handlers) :
        /\ handlers[i].pc = "done"
        /\ handlers[i].captured
        /\ handlers[i].analysis = None
        /\ handlers[i].calls >= 1
        /\ handlers[i].web = "answered"
        /\ handlers[i].posted # 0
        /\ handlers[i].mailed

\* ---------------------------------------------------------------- C14
\* C14: the post of a handler whose capture succeeded and whose analysis is
\* absent is accepted by the results store and leaves a record of that
\* capture, with a null analysis, in the store.
C14_NullAnalysisIsRecorded ==
    \A i \in 1..Len(handlers) :
        (/\ handlers[i].captured
         /\ handlers[i].analysis = None
         /\ handlers[i].posted \notin {0, 500}) =>
            /\ handlers[i].posted = 200
            /\ \E n \in 1..Len(results) :
                  /\ results[n].type = PostBody(handlers[i].kind, None).type
                  /\ results[n].analysis = None

\* ---------------------------------------------------------------- C15
\* C15: an analysis configuration that is missing or invalid never makes
\* the initialization of the components fail: with the mail fields complete
\* and the web service able to start, the startup does not end in
\* initialize_components, whether mail is enabled or not.
InvalidAnalysisConfig ==
    \/ ~boot.llm_present
    \/ llm_config.enabled /\ (\/ llm_config.text_provider = None
                              \/ llm_config.text_model = None
                              \/ llm_config.vision_provider = None
                              \/ llm_config.vision_model = None)

C15_InvalidAnalysisConfigNotFatal ==
    (InvalidAnalysisConfig /\ boot.email_fields_ok /\ boot.web_starts)
        => boot.phase # "init_failed"

\* ---------------------------------------------------------------- C16
\* C16: with analysis enabled, a call for a role that has no provider or no
\* model returns None and invokes no adapter, whatever the other role is
\* configured with.
C16_UnconfiguredRoleIsAbsent ==
    /\ (/\ last.op = "process_text"
        /\ llm_config.enabled
        /\ (llm_config.text_provider = None \/ llm_config.text_model = None)) =>
            (last.res.ret = None /\ last.res.invoked = <<>>)
    /\ (/\ last.op = "process_image"
        /\ llm_config.enabled
        /\ (llm_config.vision_provider = None \/ llm_config.vision_model = None)) =>
            (last.res.ret = None /\ last.res.invoked = <<>>)

C16_Witness ==
    /\ last.op = "process_text"
    /\ last.outcome = "ok"
    /\ llm_config.enabled
    /\ llm_config.text_model = None
    /\ llm_config.vision_provider = "ollama"
    /\ llm_config.vision_model # None
    /\ llm_config.cred["ollama"] = "valid"
    /\ last.res.ret = None
    /\ last.res.invoked = <<>>

\* ---------------------------------------------------------------- C20
\* C20: a gateway call that invoked an adapter returns a string or None and
\* raises nothing, and when the backend answered with a transport error, a
\* non-success status or a body without the text field it returns None.
C20_FailedCallIsAbsent ==
    (GatewayCall /\ last.res.invoked # <<>>) =>
        /\ last.res.ret # Exc
        /\ last.outcome \in {"transport_error", "bad_status", "missing_field"} =>
              last.res.ret = None

HostedVendors == {"openai", "claude", "doubao"}

\* C21: the availability check of a hosted vendor sends no request and is
\* true exactly when the vendor's credential is configured and is not the
\* placeholder.
C21_HostedCheckIsCredentialOnly ==
    (last.op = "check_provider" /\ last.arg \in HostedVendors) =>
        /\ last.res.requests = <<>>
        /\ last.avail <=> (llm_config.cred[last.arg] = "valid")

\* ---------------------------------------------------------------- C22
\* C22: the health probe of the local server is sent with the smaller of the
\* configured call timeout and 10 seconds, and reports available exactly
\* when the answer is status 200; another status or an exception reports
\* unavailable.
C22_HealthProbe ==
    (last.op = "check_provider" /\ last.arg = "ollama") =>
        LET configured == IF llm_config.timeout["ollama"].set
                          THEN llm_config.timeout["ollama"].value ELSE 60
        IN /\ Len(last.res.requests) = 1
           /\ last.res.requests[1].timeout <= 10
           /\ last.res.requests[1].timeout <= configured
           /\ last.res.requests[1].timeout \in {10, configured}
           /\ last.avail <=> (last.outcome = "status_200")

C22_Witness ==
    /\ last.op = "check_provider"
    /\ last.arg = "ollama"
    /\ llm_config.timeout["ollama"] = [set |-> TRUE, value |-> 30]
    /\ last.res.requests[1].timeout = 10
    /\ last.outcome = "status_500"
    /\ ~last.avail

\* ---------------------------------------------------------------- C29
\* C29: a request of the custom adapter for provider P is sent with the
\* timeout P's section configures, 60 when it configures none, whatever
\* another provider's section configures.
C29_CustomTimeoutIsOwn ==
    GatewayCall =>
        \A n \in 1..Len(last.res.requests) :
            last.res.requests[n].adapter = "custom" =>
                LET own == llm_config.timeout[last.res.requests[n].provider]
                IN last.res.requests[n].timeout =
                       IF own.set THEN own.value ELSE 60

\* ---------------------------------------------------------------- C23
\* C23: a key event that is neither Enter nor a Shift key changes neither
\* trigger window and starts no handler.
C23_OtherKeysIgnored ==
    [][ (keys_seen' # keys_seen /\ events' = events) =>
            /\ enter_times' = enter_times
            /\ shift_times' = shift_times
            /\ handlers' = handlers ]_vars

C23_Witness ==
    /\ keys_seen = Len(events["capture"]) + Len(events["send"]) + 1
    /\ Len(enter_times) = trigger_count - 1
    /\ Len(shift_times) = 1
    /\ handlers = <<>>

\* ---------------------------------------------------------------- C25
\* C25: the window bound is inclusive: when trigger_count events of one kind
\* have accumulated with no fire in between and the first and the last are
\* exactly trigger_timeout apart, the last one starts a handler.
C25_InclusiveBoundFires ==
    \A kind \in Kinds : \A i \in 1..Len(events[kind]) :
        LET first == i - trigger_count + 1
        IN (/\ first >= 1
            /\ FireEvents(kind) \cap (first..(i - 1)) = {}
            /\ events[kind][i] - events[kind][first] = trigger_timeout) =>
                i \in FireEvents(kind)

\* ---------------------------------------------------------------- C24
\* C24: in a request of the doubao adapter for an image, a reference that is
\* an http:// or https:// URL is the image URL as it stands, and any other
\* reference is sent as one image, the base64 data URI of the file's bytes.
C24_DoubaoImageUrl ==
    last.op = "process_image" =>
        \A n \in 1..Len(last.res.requests) :
            last.res.requests[n].adapter = "doubao" =>
                IF IsUrl(last.arg)
                THEN last.res.requests[n].images = << <<last.arg>> >>
                ELSE last.res.requests[n].images =
                        <<DataUri(EncodeImageToBase64("file_ok"))>>

\* ---------------------------------------------------------------- C28
\* C28: every request of the doubao adapter carries exactly one user message,
\* and that message holds the prompt, whatever the image reference is and
\* whether or not it could be encoded.
C28_DoubaoOneUserMessage ==
    GatewayCall =>
        \A n \in 1..Len(last.res.requests) :
            last.res.requests[n].adapter = "doubao" =>
                /\ Len(last.res.requests[n].messages) = 1
                /\ last.res.requests[n].messages[1].role = "user"
                /\ last.res.requests[n].messages[1].text =
                       last.res.requests[n].prompt

\* ---------------------------------------------------------------- C26
\* C26: if the pynput listener stops on its own while the main loop runs,
\* the watchdog eventually has a listener running again (or the application
\* has been stopped).
C26_WatchdogRestarts ==
    (boot.phase = "listening" /\ ~is_running(keyboard_listener))
        ~> (is_running(keyboard_listener) \/ boot.phase # "listening")

\* ---------------------------------------------------------------- C27
\* C27: at most one pynput listener is started and not stopped, and it is
\* the current one; stop() is called on a listener at most once; a
\* start_listening while running creates no listener, and a start_listening
\* after a stop creates a new one and starts it.
C27_AtMostOneListener ==
    [][ /\ Cardinality(keyboard_listener'.alive) <= 1
        /\ keyboard_listener'.alive \subseteq {keyboard_listener'.listener}
        /\ \A n \in 1..Len(keyboard_listener'.stops) :
              keyboard_listener'.stops[n] <= 1
        /\ (keyboard_listener.running /\ keyboard_listener'.running) =>
              keyboard_listener'.created = keyboard_listener.created
        /\ (~keyboard_listener.running /\ keyboard_listener'.running) =>
              /\ keyboard_listener'.created = keyboard_listener.created + 1
              /\ keyboard_listener'.listener = keyboard_listener'.created
              /\ keyboard_listener'.alive = {keyboard_listener'.created} ]_vars

C27_Witness ==
    /\ keyboard_listener.created = 2
    /\ keyboard_listener.running
    /\ keyboard_listener.listener = 2
    /\ keyboard_listener.alive = {2}
    /\ keyboard_listener.stops = <<1, 0>>
    /\ keys_seen = 2

\* ---------------------------------------------------------------- C30
\* C30: a delete of an id no stored record has is answered 404 and leaves
\* the list as it was; a delete of an id some record has leaves the other
\* records, in their order, and when it is answered 200 no record with that
\* id is left.
C30_DeleteResult ==
    response.op = "delete" =>
        LET hit == \E n \in 1..Len(response.prior) :
                       response.prior[n].id = response.id
            others(list) == SelectSeq(list, LAMBDA r : r.id # response.id)
        IN /\ ~hit => (response.status = 404 /\ results = response.prior)
           /\ hit =>
                 /\ others(results) = others(response.prior)
                 /\ response.status = 200 =>
                       \A n \in 1..Len(results) : results[n].id # response.id

====
